---- MODULE Spec2Model ----
(***************************************************************************)
(* Model of the admin deposit-bonus backend (src/models/BonusSettings.js):  *)
(* the BonusSettings model (getSettings, calculateBonus) and the admin      *)
(* bonus routes (tiers, users/:userId/adjust, calculate).                   *)
(*                                                                         *)
(* Every `await` of a handler is a point where another request may run, so  *)
(* the handlers whose interleaving matters (adjust, getSettings and its     *)
(* callers GET /settings and GET /calculate) are split at their awaits.     *)
(* Bonus balances and adjustments are whole numbers; deposit amounts, tier  *)
(* bounds and caps are whole numbers of cents, so that a percentage of an   *)
(* amount is a whole number of ten-thousandths and the final rounding to    *)
(* hundredths is a real rounding.                                           *)
(***************************************************************************)
EXTENDS Integers, Sequences, FiniteSets, TLC

VARIABLES
    store,    \* the BonusSettings collection: sequence of documents, in insertion order
    users,    \* the User collection: userId -> [bonusBalance, totalBonusReceived]
    users0,   \* the User collection as it was before any request (history)
    txlog,    \* the Transaction collection: sequence of records, in insertion order
    adj,      \* PUT /users/:userId/adjust requests in flight: id -> request state
    get,      \* GET /settings and GET /calculate requests in flight: id -> request state
    res       \* last response of the tier routes and of calculateBonus applied directly

vars == <<store, users, users0, txlog, adj, get, res>>

----------------------------------------------------------------------------
(* Bounds *)

NumAdjust == 2        \* adjust requests that may be in flight together
MaxAmount == 1        \* |amount| of an adjust request
MaxInitBalance == 1   \* largest bonusBalance a user starts with
NumGet == 2           \* getSettings callers that may be in flight together
MaxTiers == 2         \* tiers a configuration may hold

UserIds == {"u1", "u2"}
NoUser == "nobody"                      \* an id findById finds no document for
AdjIds == 1..NumAdjust
Amounts == (0 - MaxAmount)..MaxAmount
GetIds == 1..NumGet

----------------------------------------------------------------------------
(* PUT /users/:userId/adjust. Balances and amounts are whole numbers. *)

NoDoc == [bonusBalance |-> 0, totalBonusReceived |-> 0]

IdleAdjust ==
    [pc |-> "idle", userId |-> NoUser, amount |-> 0, doc |-> NoDoc,
     status |-> 0, message |-> "", changed |-> FALSE]

\* lines 416-417 testing the balance read instead of the new balance
NegativeBalanceOfOld(doc, amount) == doc.bonusBalance < 0

\* lines 416-417 with the bound off by one
NegativeBalanceOffByOne(doc, amount) == doc.bonusBalance + amount < -1

\* lines 416-417: newBonusBalance = user.bonusBalance + amount; newBonusBalance < 0
NegativeBalance(doc, amount) == doc.bonusBalance + amount < 0

\* lines 424-427: the in-memory document after the assignments
ApplyAdjust(doc, amount) ==
    [bonusBalance |-> doc.bonusBalance + amount,
     totalBonusReceived |-> IF amount > 0 THEN doc.totalBonusReceived + amount
                            ELSE doc.totalBonusReceived]

\* line 428: user.save() writes the paths the handler modified, and only those:
\* bonusBalance when amount # 0, totalBonusReceived when amount > 0
SaveUser(stored, doc, amount) ==
    [bonusBalance |-> IF amount # 0 THEN doc.bonusBalance ELSE stored.bonusBalance,
     totalBonusReceived |-> IF amount > 0 THEN doc.totalBonusReceived
                            ELSE stored.totalBonusReceived]

\* lines 431-441: the record Transaction.create is given (req stands for its _id)
BonusTransaction(r, userId, amount, doc) ==
    [req |-> r, user |-> userId, type |-> "bonus", amount |-> amount,
     status |-> "completed",
     balanceBefore |-> doc.bonusBalance - amount,
     balanceAfter |-> doc.bonusBalance]

\* The handler runs from the arrival of the request to its first database write
\* without touching anything but its own locals, so the arrival (lines 408-409),
\* the read (line 411) and the check (lines 412-427) are one step, taken at the
\* moment findById reads the collection. Requests are numbered in the order of
\* their reads.
AdjustArrives(r) ==
    /\ adj[r].pc = "idle"
    /\ \A q \in AdjIds : q < r => adj[q].pc # "idle"

\* lines 411-414: findById resolves with null
AdjustNotFound(r, u, a) ==
    /\ AdjustArrives(r)
    /\ u \notin UserIds
    /\ adj' = [adj EXCEPT ![r] = [@ EXCEPT !.pc = "done", !.userId = u, !.amount = a,
                                           !.status = 404, !.message = "User not found"]]
    /\ UNCHANGED <<store, users, users0, txlog, get, res>>

\* lines 411-422: the negative-balance rejection
AdjustReject(r, u, a) ==
    /\ AdjustArrives(r)
    /\ u \in UserIds
    /\ NegativeBalance(users[u], a)
    /\ adj' = [adj EXCEPT ![r] = [@ EXCEPT !.pc = "done", !.userId = u, !.amount = a,
                   !.doc = users[u], !.status = 400,
                   !.message = "Adjustment would result in negative bonus balance"]]
    /\ UNCHANGED <<store, users, users0, txlog, get, res>>

\* lines 411-428: the check passes, the document is updated in memory, save is issued
AdjustApply(r, u, a) ==
    /\ AdjustArrives(r)
    /\ u \in UserIds
    /\ ~NegativeBalance(users[u], a)
    /\ adj' = [adj EXCEPT ![r] = [@ EXCEPT !.pc = "save", !.userId = u, !.amount = a,
                                           !.doc = ApplyAdjust(users[u], a)]]
    /\ UNCHANGED <<store, users, users0, txlog, get, res>>

\* line 428: the save reaches the database
AdjustSave(r) ==
    /\ adj[r].pc = "save"
    /\ LET u == adj[r].userId
           new == SaveUser(users[u], adj[r].doc, adj[r].amount)
       IN /\ users' = [users EXCEPT ![u] = new]
          /\ adj' = [adj EXCEPT ![r] = [@ EXCEPT !.pc = "tx",
                         !.changed = (new.bonusBalance # users[u].bonusBalance)]]
    /\ UNCHANGED <<store, users0, txlog, get, res>>

\* lines 428, 452-455: the save rejects; the catch answers 500
AdjustSaveFail(r) ==
    /\ adj[r].pc = "save"
    /\ adj' = [adj EXCEPT ![r] = [@ EXCEPT !.pc = "done", !.status = 500,
                                           !.message = "Server error"]]
    /\ UNCHANGED <<store, users, users0, txlog, get, res>>

\* lines 431-451: the transaction record is created and the request answers 200
AdjustCreateTx(r) ==
    /\ adj[r].pc = "tx"
    /\ txlog' = Append(txlog, BonusTransaction(r, adj[r].userId, adj[r].amount, adj[r].doc))
    /\ adj' = [adj EXCEPT ![r] = [@ EXCEPT !.pc = "done", !.status = 200,
                   !.message = IF adj[r].amount >= 0 THEN "Bonus added successfully"
                               ELSE "Bonus deducted successfully"]]
    /\ UNCHANGED <<store, users, users0, get, res>>

\* lines 431, 452-455: Transaction.create rejects; the catch answers 500
AdjustCreateTxFail(r) ==
    /\ adj[r].pc = "tx"
    /\ adj' = [adj EXCEPT ![r] = [@ EXCEPT !.pc = "done", !.status = 500,
                                           !.message = "Server error"]]
    /\ UNCHANGED <<store, users, users0, txlog, get, res>>

----------------------------------------------------------------------------
(* The BonusSettings model. Money is counted in hundredths (cents), so a     *)
(* percentage of an amount is a whole number of ten-thousandths.             *)

\* A value that may be missing (undefined, null) is a sequence: <<>> when it is
\* missing, <<v>> when it is v.
Undefined == <<>>
Some(v) == <<v>>
ValueOf(x) == x[1]

\* lines 3-96: the schema defaults, what create({}) stores
DefaultSettings ==
    [isEnabled |-> TRUE, regularBonusPercent |-> 0, firstDepositBonusPercent |-> 0,
     firstDepositBonusEnabled |-> FALSE, minDepositForBonus |-> 10000,
     maxBonusAmount |-> 0, bonusWithdrawable |-> FALSE,
     withdrawalVolumeMultiplier |-> 3, bonusExpiryDays |-> 30,
     bonusTiers |-> <<>>, useTierBonus |-> FALSE]

\* lines 119-123 with the isActive test left out
TierAppliesIgnoringActive(tier, depositAmount) ==
    /\ depositAmount >= tier.minDeposit
    /\ depositAmount <= tier.maxDeposit

\* lines 119-123: the predicate of bonusTiers.find
TierApplies(tier, depositAmount) ==
    /\ tier.isActive
    /\ depositAmount >= tier.minDeposit
    /\ depositAmount <= tier.maxDeposit

RECURSIVE FindTier(_, _)
\* line 119: Array.prototype.find, the first element the predicate accepts,
\* Undefined when there is none
FindTier(tiers, depositAmount) ==
    IF tiers = <<>> THEN Undefined
    ELSE IF TierApplies(Head(tiers), depositAmount) THEN Some(Head(tiers))
    ELSE FindTier(Tail(tiers), depositAmount)

\* lines 112-130: the percentage that applies
BonusPercent(s, depositAmount, isFirstDeposit) ==
    IF isFirstDeposit /\ s.firstDepositBonusEnabled THEN s.firstDepositBonusPercent
    ELSE IF s.useTierBonus /\ Len(s.bonusTiers) > 0
         THEN LET applicableTier == FindTier(s.bonusTiers, depositAmount)
              IN IF applicableTier # Undefined THEN ValueOf(applicableTier).bonusPercent ELSE 0
    ELSE s.regularBonusPercent

\* lines 109-137: calculateBonus up to its last line, the bonus before rounding,
\* in ten-thousandths (cents * percent)
BonusBeforeRounding(s, depositAmount, isFirstDeposit) ==
    IF ~s.isEnabled THEN 0
    ELSE IF depositAmount < s.minDepositForBonus THEN 0
    ELSE LET bonusAmount == depositAmount * BonusPercent(s, depositAmount, isFirstDeposit)
         IN IF s.maxBonusAmount > 0 /\ bonusAmount > s.maxBonusAmount * 100
            THEN s.maxBonusAmount * 100
            ELSE bonusAmount

\* line 139: Math.round(bonusAmount * 100) / 100, from ten-thousandths to cents;
\* Math.round takes a half up
RoundToCents(tenThousandths) == (tenThousandths + 50) \div 100

\* lines 108-140
calculateBonus(s, depositAmount, isFirstDeposit) ==
    RoundToCents(BonusBeforeRounding(s, depositAmount, isFirstDeposit))

----------------------------------------------------------------------------
(* getSettings and its callers GET /settings and GET /calculate *)

NotANumber == -1            \* stands for a query amount that is missing or no number

IdleGet ==
    [pc |-> "idle", route |-> "", amount |-> 0, first |-> FALSE,
     doc |-> DefaultSettings, created |-> FALSE, status |-> 0,
     bonusAmount |-> 0, totalCredit |-> 0]

\* line 480 with the bonus forgotten
TotalCreditWithoutBonus(amount, bonusAmount) == amount

\* line 480: parseFloat(amount) + bonusAmount
TotalCredit(amount, bonusAmount) == amount + bonusAmount

\* lines 470-482: the answer of GET /calculate once getSettings has returned
CalculateAnswer(g, doc) ==
    LET bonusAmount == calculateBonus(doc, get[g].amount, get[g].first)
    IN [get[g] EXCEPT !.pc = "done", !.doc = doc, !.status = 200,
                      !.bonusAmount = bonusAmount,
                      !.totalCredit = TotalCredit(get[g].amount, bonusAmount)]

\* lines 160-161: the answer of GET /settings once getSettings has returned
SettingsAnswer(g, doc) == [get[g] EXCEPT !.pc = "done", !.doc = doc, !.status = 200]

Answer(g, doc) ==
    IF get[g].route = "calculate" THEN CalculateAnswer(g, doc) ELSE SettingsAnswer(g, doc)

\* line 100: findOne returns the first document of the collection, or null
FindOne(st) == IF st = <<>> THEN Undefined ELSE Some(st[1])

\* line 102: create({}) inserts a document holding the defaults
CreateDefault(st) == Append(st, DefaultSettings)

\* Requests are numbered in the order they arrive.
GetArrives(g) ==
    /\ get[g].pc = "idle"
    /\ \A q \in GetIds : q < g => get[q].pc # "idle"

\* line 158: GET /settings arrives and calls getSettings
SettingsStart(g) ==
    /\ GetArrives(g)
    /\ get' = [get EXCEPT ![g] = [@ EXCEPT !.pc = "find", !.route = "settings"]]
    /\ UNCHANGED <<store, users, users0, txlog, adj, res>>

\* lines 463-469: GET /calculate arrives with a usable amount and calls getSettings
CalculateStart(g, amount, isFirstDeposit) ==
    /\ GetArrives(g)
    /\ amount # NotANumber
    /\ get' = [get EXCEPT ![g] = [@ EXCEPT !.pc = "find", !.route = "calculate",
                                           !.amount = amount, !.first = isFirstDeposit]]
    /\ UNCHANGED <<store, users, users0, txlog, adj, res>>

\* lines 463-467: GET /calculate without a usable amount
CalculateInvalid(g, amount) ==
    /\ GetArrives(g)
    /\ amount = NotANumber
    /\ get' = [get EXCEPT ![g] = [@ EXCEPT !.pc = "done", !.route = "calculate",
                                           !.status = 400]]
    /\ UNCHANGED <<store, users, users0, txlog, adj, res>>

\* lines 100-104: findOne resolves with a document; getSettings returns it and
\* the caller answers
GetFound(g) ==
    /\ get[g].pc = "find"
    /\ FindOne(store) # Undefined
    /\ get' = [get EXCEPT ![g] = Answer(g, ValueOf(FindOne(store)))]
    /\ UNCHANGED <<store, users, users0, txlog, adj, res>>

\* lines 100-102: findOne resolves with null; create is issued
GetMissing(g) ==
    /\ get[g].pc = "find"
    /\ FindOne(store) = Undefined
    /\ get' = [get EXCEPT ![g] = [@ EXCEPT !.pc = "create"]]
    /\ UNCHANGED <<store, users, users0, txlog, adj, res>>

\* lines 102-104: the create reaches the database; getSettings returns the new
\* document and the caller answers
GetCreate(g) ==
    /\ get[g].pc = "create"
    /\ store' = CreateDefault(store)
    /\ get' = [get EXCEPT ![g] = [Answer(g, DefaultSettings) EXCEPT !.created = TRUE]]
    /\ UNCHANGED <<users, users0, txlog, adj, res>>

\* line 102 and the callers' catch: the create rejects; the caller answers 500
GetCreateFail(g) ==
    /\ get[g].pc = "create"
    /\ get' = [get EXCEPT ![g] = [@ EXCEPT !.pc = "done", !.status = 500]]
    /\ UNCHANGED <<store, users, users0, txlog, adj, res>>

----------------------------------------------------------------------------
(* The tier routes. A tier request runs alone here: its getSettings and its  *)
(* save are not interleaved with another request's.                          *)

DepositVals == {0, 5000, 10000, 20000}      \* 0, 50, 100 and 200 in cents
TierPercents == {10}
CalcAmounts == {0, 5, 10000, 15000}

NoRes == [op |-> "", status |-> 0, message |-> ""]

\* lines 99-105 run without interruption
GetOrCreate(st) == IF FindOne(st) = Undefined THEN CreateDefault(st) ELSE st

Tiers(st) == IF st = <<>> THEN <<>> ELSE st[1].bonusTiers

\* lines 217-219: the express-validator chain of POST /tiers
ValidTierBody(minDeposit, maxDeposit, bonusPercent) ==
    /\ minDeposit >= 0
    /\ maxDeposit >= 0
    /\ bonusPercent >= 0 /\ bonusPercent <= 100

\* lines 240-242 with the bounds compared strictly, so that touching ranges pass
TierOverlapsStrictly(tier, minDeposit, maxDeposit) ==
    \/ (minDeposit > tier.minDeposit /\ minDeposit < tier.maxDeposit)
    \/ (maxDeposit > tier.minDeposit /\ maxDeposit < tier.maxDeposit)
    \/ (minDeposit <= tier.minDeposit /\ maxDeposit >= tier.maxDeposit)

\* lines 240-242: the predicate of bonusTiers.some
TierOverlaps(tier, minDeposit, maxDeposit) ==
    \/ (minDeposit >= tier.minDeposit /\ minDeposit <= tier.maxDeposit)
    \/ (maxDeposit >= tier.minDeposit /\ maxDeposit <= tier.maxDeposit)
    \/ (minDeposit <= tier.minDeposit /\ maxDeposit >= tier.maxDeposit)

\* lines 239-243
hasOverlap(tiers, minDeposit, maxDeposit) ==
    \E i \in DOMAIN tiers : TierOverlaps(tiers[i], minDeposit, maxDeposit)

\* lines 252-257
NewTier(minDeposit, maxDeposit, bonusPercent) ==
    [minDeposit |-> minDeposit, maxDeposit |-> maxDeposit,
     bonusPercent |-> bonusPercent, isActive |-> TRUE]

TierRes(op, body, status, message) ==
    [op |-> op, body |-> body, status |-> status, message |-> message]

\* lines 222-225: POST /tiers, the body fails validation
AddTierInvalid(minDeposit, maxDeposit, bonusPercent) ==
    /\ ~ValidTierBody(minDeposit, maxDeposit, bonusPercent)
    /\ res' = TierRes("POST /tiers", <<minDeposit, maxDeposit, bonusPercent>>, 400,
                      "validation errors")
    /\ UNCHANGED <<store, users, users0, txlog, adj, get>>

\* lines 229-234: POST /tiers, the range is empty or inverted
AddTierBadRange(minDeposit, maxDeposit, bonusPercent) ==
    /\ ValidTierBody(minDeposit, maxDeposit, bonusPercent)
    /\ minDeposit >= maxDeposit
    /\ res' = TierRes("POST /tiers", <<minDeposit, maxDeposit, bonusPercent>>, 400,
                      "Min deposit must be less than max deposit")
    /\ UNCHANGED <<store, users, users0, txlog, adj, get>>

\* lines 236-250: POST /tiers, the range overlaps an existing tier
AddTierOverlap(minDeposit, maxDeposit, bonusPercent) ==
    /\ ValidTierBody(minDeposit, maxDeposit, bonusPercent)
    /\ minDeposit < maxDeposit
    /\ hasOverlap(Tiers(GetOrCreate(store)), minDeposit, maxDeposit)
    /\ store' = GetOrCreate(store)
    /\ res' = TierRes("POST /tiers", <<minDeposit, maxDeposit, bonusPercent>>, 400,
                      "Tier range overlaps with existing tier")
    /\ UNCHANGED <<users, users0, txlog, adj, get>>

\* lines 236-266: POST /tiers, the tier is pushed and the settings saved
AddTier(minDeposit, maxDeposit, bonusPercent) ==
    /\ ValidTierBody(minDeposit, maxDeposit, bonusPercent)
    /\ minDeposit < maxDeposit
    /\ ~hasOverlap(Tiers(GetOrCreate(store)), minDeposit, maxDeposit)
    /\ Len(Tiers(store)) < MaxTiers
    /\ store' = [GetOrCreate(store) EXCEPT ![1].bonusTiers =
                     Append(@, NewTier(minDeposit, maxDeposit, bonusPercent))]
    /\ res' = TierRes("POST /tiers", <<minDeposit, maxDeposit, bonusPercent>>, 200,
                      "Bonus tier added successfully")
    /\ UNCHANGED <<users, users0, txlog, adj, get>>

\* lines 283, 315: the index test of PUT and DELETE /tiers/:index
TierNotFound(index, tiers) == index < 0 \/ index >= Len(tiers)

\* lines 287-290: the fields the body carries replace the tier's (index from 0)
PatchTier(tier, minDeposit, maxDeposit, bonusPercent, isActive) ==
    [minDeposit |-> IF minDeposit # Undefined THEN ValueOf(minDeposit) ELSE tier.minDeposit,
     maxDeposit |-> IF maxDeposit # Undefined THEN ValueOf(maxDeposit) ELSE tier.maxDeposit,
     bonusPercent |-> IF bonusPercent # Undefined THEN ValueOf(bonusPercent) ELSE tier.bonusPercent,
     isActive |-> IF isActive # Undefined THEN ValueOf(isActive) ELSE tier.isActive]

\* lines 281-285: PUT /tiers/:index, no tier at the index
UpdateTierNotFound(index) ==
    /\ TierNotFound(index, Tiers(GetOrCreate(store)))
    /\ store' = GetOrCreate(store)
    /\ res' = TierRes("PUT /tiers", <<>>, 404, "Tier not found")
    /\ UNCHANGED <<users, users0, txlog, adj, get>>

\* lines 281-299: PUT /tiers/:index
UpdateTier(index, minDeposit, maxDeposit, bonusPercent, isActive) ==
    /\ ~TierNotFound(index, Tiers(GetOrCreate(store)))
    /\ store' = [GetOrCreate(store) EXCEPT ![1].bonusTiers[index + 1] =
                     PatchTier(@, minDeposit, maxDeposit, bonusPercent, isActive)]
    /\ res' = TierRes("PUT /tiers", <<>>, 200, "Bonus tier updated successfully")
    /\ UNCHANGED <<users, users0, txlog, adj, get>>

\* line 319: splice(index, 1)
Splice(tiers, index) ==
    [i \in 1..(Len(tiers) - 1) |-> IF i <= index THEN tiers[i] ELSE tiers[i + 1]]

\* lines 313-317: DELETE /tiers/:index, no tier at the index
DeleteTierNotFound(index) ==
    /\ TierNotFound(index, Tiers(GetOrCreate(store)))
    /\ store' = GetOrCreate(store)
    /\ res' = TierRes("DELETE /tiers", <<>>, 404, "Tier not found")
    /\ UNCHANGED <<users, users0, txlog, adj, get>>

\* lines 313-327: DELETE /tiers/:index
DeleteTier(index) ==
    /\ ~TierNotFound(index, Tiers(GetOrCreate(store)))
    /\ store' = [GetOrCreate(store) EXCEPT ![1].bonusTiers = Splice(@, index)]
    /\ res' = TierRes("DELETE /tiers", <<>>, 200, "Bonus tier deleted successfully")
    /\ UNCHANGED <<users, users0, txlog, adj, get>>

\* calculateBonus applied to the stored configuration
ApplyCalculateBonus(depositAmount, isFirstDeposit) ==
    /\ store # <<>>
    /\ res' = [op |-> "calculateBonus", depositAmount |-> depositAmount,
               isFirstDeposit |-> isFirstDeposit,
               beforeRounding |-> BonusBeforeRounding(store[1], depositAmount,
                                                      isFirstDeposit),
               bonusAmount |-> calculateBonus(store[1], depositAmount, isFirstDeposit)]
    /\ UNCHANGED <<store, users, users0, txlog, adj, get>>

----------------------------------------------------------------------------
(* Specifications *)

\* users who have received bonusBalance in bonuses and spent none of it
InitUsers ==
    /\ users \in [UserIds -> {[bonusBalance |-> b, totalBonusReceived |-> b] :
                                  b \in 0..MaxInitBalance}]
    /\ users0 = users

InitAdjust ==
    /\ InitUsers
    /\ store = <<>>
    /\ txlog = <<>>
    /\ adj = [r \in AdjIds |-> IdleAdjust]
    /\ get = [g \in GetIds |-> IdleGet]
    /\ res = NoRes

NextAdjustReliable ==
    \/ \E r \in AdjIds, a \in Amounts : AdjustNotFound(r, NoUser, a)
    \/ \E r \in AdjIds, u \in UserIds, a \in Amounts : AdjustReject(r, u, a)
    \/ \E r \in AdjIds, u \in UserIds, a \in Amounts : AdjustApply(r, u, a)
    \/ \E r \in AdjIds : AdjustSave(r)
    \/ \E r \in AdjIds : AdjustCreateTx(r)

NextAdjust ==
    \/ NextAdjustReliable
    \/ \E r \in AdjIds : AdjustSaveFail(r)
    \/ \E r \in AdjIds : AdjustCreateTxFail(r)

\* the adjust route with a database that may fail any write
SpecAdjust == InitAdjust /\ [][NextAdjust]_vars

\* the adjust route with a database that never fails
SpecAdjustReliable == InitAdjust /\ [][NextAdjustReliable]_vars

\* the configurations PUT /settings can store, without tiers
FlatConfigs ==
    {[DefaultSettings EXCEPT !.isEnabled = e, !.firstDepositBonusEnabled = f,
                             !.regularBonusPercent = 10, !.firstDepositBonusPercent = fp,
                             !.minDepositForBonus = m, !.maxBonusAmount = c] :
        e \in BOOLEAN, f \in BOOLEAN, fp \in {50},
        m \in {0, 10000}, c \in {0, 5000}}

\* tiers the tier routes can store; two of the ranges share the amount 10000
CalcTiers ==
    {[minDeposit |-> r[1], maxDeposit |-> r[2], bonusPercent |-> p, isActive |-> a] :
        r \in {<<0, 10000>>, <<10000, 15000>>, <<5, 15000>>},
        p \in {20, 100}, a \in BOOLEAN}

TierLists == UNION {[1..n -> CalcTiers] : n \in 0..MaxTiers}

NoBonusUsers == [u \in UserIds |-> [bonusBalance |-> 0, totalBonusReceived |-> 0]]

InitSettings ==
    /\ users = NoBonusUsers /\ users0 = users
    /\ store \in {<<>>} \cup {<<c>> : c \in FlatConfigs}
    /\ txlog = <<>>
    /\ adj = [r \in AdjIds |-> IdleAdjust]
    /\ get = [g \in GetIds |-> IdleGet]
    /\ res = NoRes

NextSettings ==
    \/ \E g \in GetIds : SettingsStart(g)
    \/ \E g \in GetIds, a \in CalcAmounts, f \in BOOLEAN : CalculateStart(g, a, f)
    \/ \E g \in GetIds : CalculateInvalid(g, NotANumber)
    \/ \E g \in GetIds : GetFound(g)
    \/ \E g \in GetIds : GetMissing(g)
    \/ \E g \in GetIds : GetCreate(g)
    \/ \E g \in GetIds : GetCreateFail(g)

\* GET /settings and GET /calculate, interleaved at getSettings' awaits
SpecSettings == InitSettings /\ [][NextSettings]_vars

InitTiers ==
    /\ users = NoBonusUsers /\ users0 = users
    /\ store = <<>>
    /\ txlog = <<>>
    /\ adj = [r \in AdjIds |-> IdleAdjust]
    /\ get = [g \in GetIds |-> IdleGet]
    /\ res = NoRes

TierBodyVals == DepositVals \cup {-1}

\* the bodies of PUT /tiers/:index: no field, or one field
NoPatch == [minDeposit |-> Undefined, maxDeposit |-> Undefined,
            bonusPercent |-> Undefined, isActive |-> Undefined]
TierPatches ==
    {NoPatch}
    \cup {[NoPatch EXCEPT !.minDeposit = Some(v)] : v \in {0, 10000}}
    \cup {[NoPatch EXCEPT !.maxDeposit = Some(v)] : v \in {5000, 20000}}
    \cup {[NoPatch EXCEPT !.bonusPercent = Some(v)] : v \in TierPercents}
    \cup {[NoPatch EXCEPT !.isActive = Some(v)] : v \in BOOLEAN}

NextTiers ==
    \/ \E lo \in TierBodyVals, hi \in TierBodyVals, p \in TierPercents :
           AddTierInvalid(lo, hi, p)
    \/ \E lo \in TierBodyVals, hi \in TierBodyVals, p \in TierPercents :
           AddTierBadRange(lo, hi, p)
    \/ \E lo \in TierBodyVals, hi \in TierBodyVals, p \in TierPercents :
           AddTierOverlap(lo, hi, p)
    \/ \E lo \in TierBodyVals, hi \in TierBodyVals, p \in TierPercents :
           AddTier(lo, hi, p)
    \/ \E i \in -1..MaxTiers : UpdateTierNotFound(i)
    \/ \E i \in -1..MaxTiers, b \in TierPatches :
           UpdateTier(i, b.minDeposit, b.maxDeposit, b.bonusPercent, b.isActive)
    \/ \E i \in -1..MaxTiers : DeleteTierNotFound(i)
    \/ \E i \in -1..MaxTiers : DeleteTier(i)

\* the tier routes, one request at a time
SpecTiers == InitTiers /\ [][NextTiers]_vars

InitCalc ==
    /\ users = NoBonusUsers /\ users0 = users
    /\ store \in {<<[c EXCEPT !.useTierBonus = t, !.bonusTiers = l]>> :
                     c \in FlatConfigs, t \in BOOLEAN, l \in TierLists}
    /\ txlog = <<>>
    /\ adj = [r \in AdjIds |-> IdleAdjust]
    /\ get = [g \in GetIds |-> IdleGet]
    /\ res = NoRes

NextCalc == \E a \in CalcAmounts, f \in BOOLEAN : ApplyCalculateBonus(a, f)

\* calculateBonus over every configuration of the bounded domains
SpecCalc == InitCalc /\ [][NextCalc]_vars

----------------------------------------------------------------------------
(* Claims about PUT /users/:userId/adjust *)

AllAdjustDone == \A r \in AdjIds : adj[r].pc = "done"

RECURSIVE SumDeltas(_, _, _)
\* the sum of the amounts of the requests 1..n on user u that answered 200,
\* all of them or the positive ones only
SumDeltas(n, u, positiveOnly) ==
    IF n = 0 THEN 0
    ELSE SumDeltas(n - 1, u, positiveOnly)
         + (IF /\ adj[n].userId = u
               /\ adj[n].status = 200
               /\ (positiveOnly => adj[n].amount > 0)
            THEN adj[n].amount ELSE 0)

\* C1: whatever adjust requests run and however their reads and saves
\* interleave, no user's stored bonusBalance is negative.
C1_BalanceNeverNegative == \A u \in UserIds : users[u].bonusBalance >= 0

\* C1 witness: a deduction was accepted and took a user's balance down to 0
C1_Witness ==
    \E r \in AdjIds :
        /\ adj[r].pc = "done" /\ adj[r].status = 200 /\ adj[r].amount < 0
        /\ users[adj[r].userId].bonusBalance = 0

\* C2: once every adjust request has completed, each user's bonusBalance is
\* the initial balance plus the deltas of the requests that reported success,
\* and totalBonusReceived the initial value plus their positive deltas.
C2_NoLostUpdate ==
    AllAdjustDone =>
        \A u \in UserIds :
            /\ users[u].bonusBalance
                 = users0[u].bonusBalance + SumDeltas(NumAdjust, u, FALSE)
            /\ users[u].totalBonusReceived
                 = users0[u].totalBonusReceived + SumDeltas(NumAdjust, u, TRUE)

\* C3: a request whose amount would take the balance it read below zero is
\* answered 400 with the negative-balance message, and that step leaves every
\* user record and the transaction log as they were.
C3_RejectChangesNothing ==
    [][\A r \in AdjIds, u \in UserIds, a \in Amounts :
          ( /\ adj[r].pc = "idle" /\ adj'[r].pc # "idle"
            /\ adj'[r].userId = u /\ adj'[r].amount = a
            /\ users[u].bonusBalance + a < 0 )
          => /\ adj'[r].pc = "done"
             /\ adj'[r].status = 400
             /\ adj'[r].message = "Adjustment would result in negative bonus balance"
             /\ users' = users
             /\ txlog' = txlog]_vars

\* C3 witness: a request was rejected for a negative balance
C3_Witness ==
    \E r \in AdjIds :
        /\ adj[r].pc = "done" /\ adj[r].status = 400
        /\ users[adj[r].userId].bonusBalance + adj[r].amount < 0

\* C4: every finished request that changed a stored bonusBalance has exactly
\* one 'bonus' transaction record, carrying its signed amount, the balance it
\* stored as balanceAfter and balanceAfter - amount as balanceBefore.
C4_OneRecordPerChange ==
    \A r \in AdjIds :
        (adj[r].pc = "done" /\ adj[r].changed) =>
            Cardinality({i \in DOMAIN txlog :
                            /\ txlog[i].req = r
                            /\ txlog[i].user = adj[r].userId
                            /\ txlog[i].type = "bonus"
                            /\ txlog[i].amount = adj[r].amount
                            /\ txlog[i].balanceAfter = adj[r].doc.bonusBalance
                            /\ txlog[i].balanceBefore
                                 = txlog[i].balanceAfter - txlog[i].amount}) = 1

----------------------------------------------------------------------------
(* Claims about calculateBonus *)

\* the matching active tiers, by position
C5_Matching(s, amount) ==
    {i \in DOMAIN s.bonusTiers :
        /\ s.bonusTiers[i].isActive
        /\ s.bonusTiers[i].minDeposit <= amount
        /\ amount <= s.bonusTiers[i].maxDeposit}

\* the percentage of the ordered rules
C5_Percent(s, amount, first) ==
    CASE first /\ s.firstDepositBonusEnabled -> s.firstDepositBonusPercent
      [] ~(first /\ s.firstDepositBonusEnabled)
            /\ s.useTierBonus /\ s.bonusTiers # <<>> ->
            IF C5_Matching(s, amount) = {} THEN 0
            ELSE s.bonusTiers[CHOOSE i \in C5_Matching(s, amount) :
                                 \A j \in C5_Matching(s, amount) : i <= j].bonusPercent
      [] OTHER -> s.regularBonusPercent

\* the reference of the ordered rules, in ten-thousandths
C5_Reference(s, amount, first) ==
    CASE ~s.isEnabled -> 0
      [] s.isEnabled /\ amount < s.minDepositForBonus -> 0
      [] OTHER ->
            LET raw == amount * C5_Percent(s, amount, first)
                cap == s.maxBonusAmount * 100
            IN IF s.maxBonusAmount > 0 /\ raw >= cap THEN cap ELSE raw

\* C5: for every configuration, amount and first-deposit flag of the bounded
\* domains, calculateBonus before its final rounding equals the reference built
\* from the ordered rules (disabled, below the minimum, first-deposit rate,
\* first active matching tier in stored order or 0, regular rate, cap).
C5_CalculateMatchesRules ==
    res.op = "calculateBonus" =>
        res.beforeRounding = C5_Reference(store[1], res.depositAmount, res.isFirstDeposit)

\* C5 witness: tier lookup decided the result, the first stored tier is
\* inactive and matches, and a later active tier with another rate was taken
C5_Witness ==
    /\ res.op = "calculateBonus"
    /\ ~res.isFirstDeposit
    /\ store[1].isEnabled /\ store[1].useTierBonus
    /\ Len(store[1].bonusTiers) = 2
    /\ ~store[1].bonusTiers[1].isActive
    /\ TierAppliesIgnoringActive(store[1].bonusTiers[1], res.depositAmount)
    /\ TierApplies(store[1].bonusTiers[2], res.depositAmount)
    /\ store[1].bonusTiers[1].bonusPercent # store[1].bonusTiers[2].bonusPercent
    /\ store[1].maxBonusAmount = 0
    /\ res.depositAmount > 0
    /\ res.beforeRounding = res.depositAmount * store[1].bonusTiers[2].bonusPercent

----------------------------------------------------------------------------
(* Claims about the tier routes *)

\* two inclusive ranges share a point; a shared point, if there is one, is
\* among the four bounds
C6_RangesIntersect(a, b, c, d) ==
    \E x \in {a, b, c, d} : a <= x /\ x <= b /\ c <= x /\ x <= d

C6_IntersectsSome(tiers, a, b) ==
    \E i \in DOMAIN tiers :
        C6_RangesIntersect(a, b, tiers[i].minDeposit, tiers[i].maxDeposit)

OverlapMessage == "Tier range overlaps with existing tier"

\* C6: POST /tiers with minDeposit < maxDeposit is rejected with the overlap
\* error, the tier list unchanged, exactly when the candidate's inclusive range
\* intersects the inclusive range of an existing tier; otherwise the candidate
\* is appended as the last tier, active, and the other tiers keep their places.
C6_RejectedIffIntersects ==
    [][\A a \in DepositVals, b \in DepositVals, p \in TierPercents :
          (a < b /\ res'.op = "POST /tiers" /\ res'.body = <<a, b, p>>)
          => IF C6_IntersectsSome(Tiers(store), a, b)
             THEN /\ res'.status = 400 /\ res'.message = OverlapMessage
                  /\ Tiers(store') = Tiers(store)
             ELSE /\ res'.status = 200
                  /\ Tiers(store') = Append(Tiers(store),
                                           [minDeposit |-> a, maxDeposit |-> b,
                                            bonusPercent |-> p, isActive |-> TRUE])]_vars

\* the stored tiers are [0,50] and [100,200]
C7_TwoTiers ==
    /\ Len(Tiers(store)) = 2
    /\ Tiers(store)[1].minDeposit = 0 /\ Tiers(store)[1].maxDeposit = 5000
    /\ Tiers(store)[2].minDeposit = 10000 /\ Tiers(store)[2].maxDeposit = 20000

\* C7 as claimed: adding [50,100] when [0,50] and [100,200] exist is accepted
\* and appended.
C7_TouchingAccepted ==
    [][(C7_TwoTiers /\ res'.op = "POST /tiers" /\ res'.body = <<5000, 10000, 10>>)
       => /\ res'.status = 200
          /\ Len(Tiers(store')) = 3
          /\ Tiers(store')[3].minDeposit = 5000
          /\ Tiers(store')[3].maxDeposit = 10000]_vars

\* C7 as amended: a candidate whose range touches an existing tier's at a
\* shared bound (its minDeposit is a tier's maxDeposit, or its maxDeposit a
\* tier's minDeposit) is rejected with the overlap error and the tier list is
\* unchanged; so is [50,100] when [0,50] and [100,200] exist.
C7_TouchingRejected ==
    [][\A a \in DepositVals, b \in DepositVals, p \in TierPercents :
          ( /\ a < b /\ res'.op = "POST /tiers" /\ res'.body = <<a, b, p>>
            /\ \E i \in DOMAIN Tiers(store) :
                   \/ Tiers(store)[i].maxDeposit = a
                   \/ Tiers(store)[i].minDeposit = b )
          => /\ res'.status = 400 /\ res'.message = OverlapMessage
             /\ store' = store]_vars

\* C7 witness: [50,100] was refused while [0,50] and [100,200] were stored
C7_Witness ==
    /\ C7_TwoTiers
    /\ res = TierRes("POST /tiers", <<5000, 10000, 10>>, 400, OverlapMessage)

\* C8: whatever POST, PUT and DELETE /tiers requests ran, every stored tier
\* has minDeposit < maxDeposit.
C8_TierRangesOrdered ==
    \A i \in DOMAIN Tiers(store) : Tiers(store)[i].minDeposit < Tiers(store)[i].maxDeposit

----------------------------------------------------------------------------
(* Claims about getSettings and GET /calculate *)

\* C9: the collection never holds more than one BonusSettings document, and
\* holds exactly one once a request that called getSettings has completed.
C9_SingleSettingsDocument ==
    /\ Len(store) <= 1
    /\ (\E g \in GetIds : get[g].pc = "done" /\ get[g].status = 200) => Len(store) = 1

\* C10 as claimed: no step of a GET /calculate request changes the settings
\* collection, the users or the transaction log, and its answer's totalCredit
\* is the amount plus the bonusAmount it returns.
C10_CalculatePersistsNothing ==
    [][\A g \in GetIds :
          (get'[g] # get[g] /\ get'[g].route = "calculate")
          => /\ store' = store /\ users' = users /\ txlog' = txlog
             /\ get'[g].status = 200 =>
                    get'[g].totalCredit = get'[g].amount + get'[g].bonusAmount]_vars

\* C10 as amended: a GET /calculate request never changes the users, the
\* transaction log or an existing settings document; the one thing it may
\* persist is a new default settings document, when its findOne found none;
\* its answer's totalCredit is the amount plus the bonusAmount it returns.
C10_CalculatePersistsOnlyDefault ==
    [][\A g \in GetIds :
          (get'[g] # get[g] /\ get'[g].route = "calculate")
          => /\ users' = users /\ txlog' = txlog
             /\ \/ store' = store
                \/ get[g].pc = "create" /\ store' = Append(store, DefaultSettings)
             /\ get'[g].status = 200 =>
                    get'[g].totalCredit = get'[g].amount + get'[g].bonusAmount]_vars

\* C10 witness: a GET /calculate found no settings document, created the
\* default one and answered
C10_Witness ==
    \E g \in GetIds :
        /\ get[g].route = "calculate" /\ get[g].pc = "done"
        /\ get[g].status = 200 /\ get[g].created
        /\ store # <<>>
        /\ get[g].totalCredit = get[g].amount + get[g].bonusAmount

====
